---- MODULE Spec2Model ----
(***************************************************************************)
(* Model of scripts/symlink-comparison.py: the path normalizer, the        *)
(* symlink chain resolver, the equivalence matcher and the store-path      *)
(* mapping analyzer.  Strings are sequences of one-character strings, so   *)
(* that the regular expressions of the script are matched character by     *)
(* character.                                                              *)
(***************************************************************************)
EXTENDS Integers, Sequences, FiniteSets, TLC

VARIABLES
  \* the normalizer: the path given, the argument and the result of the
  \* last call, the number of calls made
  np_path, np_in, np_out, np_calls,
  \* the resolver: the snapshot tables, the max_depth argument, the cache,
  \* the path argument of the current call, the locals of the loop, the
  \* value returned last, the position in the function, the number of passes
  \* through the loop body in the current call, the number of calls made,
  \* whether the last call found its path in the cache
  rs_symlinks, rs_files, max_depth, rs_cache, rs_path, current_path, visited,
  depth, rs_result, rs_pc, rs_iters, rs_calls, rs_hit,
  \* the matcher: the tables of the two snapshots, the key order of the
  \* symlinks of state 1, the batch_size argument, the index of state 2,
  \* the results, the mappings, the two caches, the loop variables, the
  \* position in the run, the value returned by analyze_store_paths
  symlinks1, files1, symlinks2, files2, symlinks1_list, batch_size,
  path_index2, results, store_path_mappings, resolve_cache1, resolve_cache2,
  start_idx, batch, batch_pos, ms_pc, store_analysis

norm_vars == <<np_path, np_in, np_out, np_calls>>
table_vars == <<rs_symlinks, rs_files, max_depth>>
res_vars == <<rs_symlinks, rs_files, max_depth, rs_cache, rs_path,
              current_path, visited, depth, rs_result, rs_pc, rs_iters,
              rs_calls, rs_hit>>
snap_vars == <<symlinks1, files1, symlinks2, files2, symlinks1_list,
               batch_size>>
match_vars == <<symlinks1, files1, symlinks2, files2, symlinks1_list,
                batch_size, path_index2, results, store_path_mappings,
                resolve_cache1, resolve_cache2, start_idx, batch, batch_pos,
                ms_pc, store_analysis>>
vars == <<norm_vars, res_vars, match_vars>>

(***************************************************************************)
(* Bounds of the model.                                                    *)
(***************************************************************************)
\* number of pieces a generated path is concatenated from
MaxPieces == 4
\* number of calls of the resolver against one cache
MaxCalls == 2
\* largest max_depth argument tried besides the default
MaxSmallDepth == 3
\* largest batch_size argument tried besides the default
MaxBatch == 2
\* how far the long chains and cycles go beyond the default max_depth
MaxBeyond == 1
\* number of components a generated symlink target is joined from
MaxTargetComps == 3
\* number of symlinks in a snapshot of nested store paths
MaxPairLinks == 2

(***************************************************************************)
(* Program constants.                                                      *)
(***************************************************************************)
\* the {32} of the store-hash character class
HashLen == 32

(***************************************************************************)
(* Characters and string helpers.                                          *)
(***************************************************************************)
\* the character class [a-z0-9]
LowerAlnum ==
  {"a","b","c","d","e","f","g","h","i","j","k","l","m","n","o","p","q","r",
   "s","t","u","v","w","x","y","z","0","1","2","3","4","5","6","7","8","9"}

\* the regex atom '.' (no DOTALL flag): any character but a newline
Dot(c) == c # "\n"

\* s[i..] starts with the literal lit
StartsAt(s, i, lit) ==
  /\ i + Len(lit) - 1 <= Len(s)
  /\ SubSeq(s, i, i + Len(lit) - 1) = lit

\* least and greatest element of a non-empty set of integers
MinOf(S) == CHOOSE m \in S : \A x \in S : m <= x
MaxOf(S) == CHOOSE m \in S : \A x \in S : m >= x

\* str.lstrip("/")
lstrip(s) ==
  LET keep == { k \in 1..Len(s) : s[k] # "/" } IN
  IF keep = {} THEN <<>> ELSE SubSeq(s, MinOf(keep), Len(s))

\* length of the text matched at i by nix/(?:\.r[wo]-)?store/ , 0 for no match
StoreRootLenAt(s, i) ==
  IF ~StartsAt(s, i, <<"n","i","x","/">>) THEN 0
  ELSE IF StartsAt(s, i + 4, <<"s","t","o","r","e","/">>) THEN 10
  ELSE IF /\ StartsAt(s, i + 4, <<".","r">>)
          /\ i + 6 <= Len(s)
          /\ s[i + 6] \in {"w", "o"}
          /\ StartsAt(s, i + 7, <<"-","s","t","o","r","e","/">>)
       THEN 14
  ELSE 0

\* [a-z0-9]{32}- matches at j
HashDashAt(s, j) ==
  /\ j + HashLen <= Len(s)
  /\ \A k \in j..(j + HashLen - 1) : s[k] \in LowerAlnum
  /\ s[j + HashLen] = "-"

\* position just after the store root and the hash and the dash of a match
\* of (nix/(?:\.r[wo]-)?store/)[a-z0-9]{32}- at i, 0 for no match
StoreHashEndAt(s, i) ==
  LET r == StoreRootLenAt(s, i) IN
  IF r > 0 /\ HashDashAt(s, i + r) THEN i + r + HashLen + 1 ELSE 0

\* last position of the greedy (.+) that starts at j
DotPlusEnd(s, j) ==
  LET stop == { k \in j..Len(s) : ~Dot(s[k]) } IN
  IF stop = {} THEN Len(s) ELSE MinOf(stop) - 1

\* the whole pattern of normalize_path matches at i
NormPatternAt(s, i) ==
  LET e == StoreHashEndAt(s, i) IN
  e > 0 /\ e <= Len(s) /\ Dot(s[e])

HASH == <<"H","A","S","H","-">>

\* a substitution that goes on looking for store hashes right after the
\* hash it has replaced, instead of consuming the rest of the line
RECURSIVE re_sub_every(_, _)
RECURSIVE sub_every_at(_, _, _)

re_sub_every(s, i) == sub_every_at(s, i, { k \in i..Len(s) : NormPatternAt(s, k) })

sub_every_at(s, i, found) ==
  IF found = {} THEN SubSeq(s, i, Len(s))
  ELSE SubSeq(s, i, MinOf(found) + StoreRootLenAt(s, MinOf(found)) - 1)
         \o HASH \o re_sub_every(s, StoreHashEndAt(s, MinOf(found)))

\* re.sub(pattern, r"\1HASH-\2", s) from position i on: every
\* non-overlapping match, leftmost first
RECURSIVE re_sub(_, _)
RECURSIVE sub_match(_, _, _, _)

re_sub(s, i) ==
  IF \A k \in i..Len(s) : ~NormPatternAt(s, k)
  THEN SubSeq(s, i, Len(s))
  ELSE sub_match(s, i, MinOf({ k \in i..Len(s) : NormPatternAt(s, k) }),
                 StoreHashEndAt(s, MinOf({ k \in i..Len(s) : NormPatternAt(s, k) })))

\* the leftmost match, at m: group 1 is the store root, group 2 runs from g
\* to the end of the line; the search goes on behind the match
sub_match(s, i, m, g) ==
  SubSeq(s, i, m + StoreRootLenAt(s, m) - 1) \o HASH
    \o SubSeq(s, g, DotPlusEnd(s, g)) \o re_sub(s, DotPlusEnd(s, g) + 1)

normalize_path(path) == re_sub(lstrip(path), 1)

fix_path(path) == lstrip(path)

(***************************************************************************)
(* posixpath helpers used by the resolver.                                 *)
(***************************************************************************)
\* index of the last "/" of s, 0 if there is none: str.rfind("/") + 1
LastSlash(s) ==
  LET at == { k \in 1..Len(s) : s[k] = "/" } IN
  IF at = {} THEN 0 ELSE MaxOf(at)

\* str.rstrip("/")
rstrip(s) ==
  LET keep == { k \in 1..Len(s) : s[k] # "/" } IN
  IF keep = {} THEN <<>> ELSE SubSeq(s, 1, MaxOf(keep))

\* os.path.dirname
dirname(p) ==
  LET head == SubSeq(p, 1, LastSlash(p)) IN
  IF head # <<>> /\ rstrip(head) # <<>> THEN rstrip(head) ELSE head

\* os.path.join(a, b) of two components
join(a, b) ==
  IF b # <<>> /\ Head(b) = "/" THEN b
  ELSE IF a = <<>> \/ a[Len(a)] = "/" THEN a \o b
  ELSE a \o <<"/">> \o b

\* str.split("/") as a sequence of components
RECURSIVE split(_)
split(s) ==
  LET k == LastSlash(s) IN
  IF k = 0 THEN << s >>
  ELSE Append(split(SubSeq(s, 1, k - 1)), SubSeq(s, k + 1, Len(s)))

\* "/".join(comps)
RECURSIVE join_slash(_)
join_slash(comps) ==
  IF comps = <<>> THEN <<>>
  ELSE IF Len(comps) = 1 THEN comps[1]
  ELSE comps[1] \o <<"/">> \o join_slash(Tail(comps))

DotDot == <<".", ".">>

\* the component loop of os.path.normpath
RECURSIVE norm_comps(_, _, _)
norm_comps(comps, new_comps, initial_slashes) ==
  IF comps = <<>> THEN new_comps
  ELSE LET comp == Head(comps) IN
       IF comp = <<>> \/ comp = <<".">>
       THEN norm_comps(Tail(comps), new_comps, initial_slashes)
       ELSE IF \/ comp # DotDot
               \/ (initial_slashes = 0 /\ new_comps = <<>>)
               \/ (new_comps # <<>> /\ new_comps[Len(new_comps)] = DotDot)
       THEN norm_comps(Tail(comps), Append(new_comps, comp), initial_slashes)
       ELSE IF new_comps # <<>>
       THEN norm_comps(Tail(comps), SubSeq(new_comps, 1, Len(new_comps) - 1),
                       initial_slashes)
       ELSE norm_comps(Tail(comps), new_comps, initial_slashes)

\* path or "."
OrDot(path) == IF path = <<>> THEN <<".">> ELSE path

\* the normalized components behind the initial slashes
norm_join(p, initial_slashes) ==
  [k \in 1..initial_slashes |-> "/"]
    \o join_slash(norm_comps(split(p), <<>>, initial_slashes))

\* os.path.normpath
normpath(p) ==
  IF p = <<>> THEN <<".">>
  ELSE OrDot(norm_join(p, IF Head(p) # "/" THEN 0
                          ELSE IF /\ StartsAt(p, 1, <<"/","/">>)
                                  /\ ~StartsAt(p, 1, <<"/","/","/">>)
                               THEN 2 ELSE 1))

(***************************************************************************)
(* The symlink chain resolver.                                             *)
(***************************************************************************)
\* the default of the max_depth parameter
DefaultMaxDepth == 20

\* values of a symlink record's "target": a string, None (also for a record
\* without the key), or a JSON value that is not a string
StrTarget(s) == [kind |-> "str", str |-> s]
NoneTarget == [kind |-> "none", str |-> <<>>]
TruthyNonStr == [kind |-> "truthy_nonstr", str |-> <<>>]
FalsyNonStr == [kind |-> "falsy_nonstr", str |-> <<>>]

\* Python truth value of a target ("not target" is its negation)
Truthy(target) ==
  \/ target.kind = "str" /\ target.str # <<>>
  \/ target.kind = "truthy_nonstr"

\* None as a content hash
NoHash == "None"

ResultTuple(final_path, is_broken, file_hash, status) ==
  [final_path |-> final_path, broken |-> is_broken, hash |-> file_hash,
   status |-> status]

NoResult == ResultTuple(<<>>, TRUE, NoHash, "none")

\* a continuation that joins a relative target to the directory and leaves
\* the . and .. segments in
NextPathJoined(cur, target) ==
  IF Head(target) # "/"
  THEN join(dirname(cur), target)
  ELSE lstrip(target)

\* the path the chain continues at
NextPath(cur, target) ==
  IF Head(target) # "/"
  THEN normpath(join(dirname(cur), target))
  ELSE lstrip(target)

\* a loop that goes on for as long as there are symlinks to follow
LoopGuardUnbounded(dep, maxd) == dep < maxd \/ dep >= maxd

\* the condition of the while loop
LoopGuard(dep, maxd) == dep < maxd

\* outcomes of one pass through the loop body, with the values of the
\* local variables at that point
Returns(result, cur, vis, dep) ==
  [kind |-> "return", result |-> result, current_path |-> cur,
   visited |-> vis, depth |-> dep]
Raises(cur, vis, dep) ==
  [kind |-> "raise", result |-> NoResult, current_path |-> cur,
   visited |-> vis, depth |-> dep]
Continues(cur, vis, dep) ==
  [kind |-> "continue", result |-> NoResult, current_path |-> cur,
   visited |-> vis, depth |-> dep]

\* a pass that forgets to record the path it is at
MarkVisitedNot(vis, cur) == vis

\* visited.add(current_path)
MarkVisited(vis, cur) == vis \cup {cur}

\* a pass that leaves the hop counter alone
IncDepthNot(dep) == dep

\* depth += 1
IncDepth(dep) == dep + 1

\* one pass through the body of the while loop
LoopBody(cur, vis, dep, symlinks, files) ==
  IF cur \in vis
  THEN Returns(ResultTuple(cur, TRUE, NoHash, "cycle"), cur, vis, dep)
  ELSE LET vis2 == MarkVisited(vis, cur)
           dep2 == IncDepth(dep)
       IN
       IF cur \notin DOMAIN symlinks
       THEN LET clean_path == fix_path(cur) IN
            IF clean_path \in DOMAIN files /\ files[clean_path].hash # NoHash
            THEN Returns(ResultTuple(cur, FALSE, files[clean_path].hash, "file"),
                         cur, vis2, dep2)
            ELSE Returns(ResultTuple(cur, TRUE, NoHash, "missing"),
                         cur, vis2, dep2)
       ELSE LET target == symlinks[cur].target IN
            IF ~Truthy(target)
            THEN Returns(ResultTuple(cur, TRUE, NoHash, "broken"),
                         cur, vis2, dep2)
            ELSE IF target.kind # "str"
            THEN Raises(cur, vis2, dep2)
            ELSE Continues(NextPath(cur, target.str), vis2, dep2)

\* a result for a chain that was cut off which is not flagged as broken
MaxDepthResultUnbroken(cur) == ResultTuple(cur, FALSE, NoHash, "max_depth")

\* the result built after the loop has run out
MaxDepthResult(cur) == ResultTuple(cur, TRUE, NoHash, "max_depth")

\* a cache write under the key of the path the loop is at
CacheWriteCurrent(cache, path, cur, result) ==
  [k \in DOMAIN cache \cup {cur} |-> IF k = cur THEN result ELSE cache[k]]

\* cache[path] = result
CacheWrite(cache, path, cur, result) ==
  [k \in DOMAIN cache \cup {path} |-> IF k = path THEN result ELSE cache[k]]

\* the while loop from a loop state on, and the fall-through after it
RECURSIVE WhileLoop(_, _, _, _, _, _)
RECURSIVE AfterBody(_, _, _, _)

WhileLoop(cur, vis, dep, symlinks, files, maxd) ==
  IF ~LoopGuard(dep, maxd)
  THEN Returns(MaxDepthResult(cur), cur, vis, dep)
  ELSE AfterBody(LoopBody(cur, vis, dep, symlinks, files), symlinks, files,
                 maxd)

\* the loop goes round again after a pass that has followed a symlink
AfterBody(o, symlinks, files, maxd) ==
  IF o.kind = "continue"
  THEN WhileLoop(o.current_path, o.visited, o.depth, symlinks, files, maxd)
  ELSE o

\* what a call that missed the cache hands back: the result, stored in the
\* cache, unless the loop has raised
CallOutcome(o, path, cache) ==
  IF o.kind = "raise"
  THEN [raised |-> TRUE, result |-> NoResult, cache |-> cache]
  ELSE [raised |-> FALSE, result |-> o.result,
        cache |-> CacheWrite(cache, path, o.current_path, o.result)]

\* resolve_symlink_chain as a function: the outcome and the cache after it
resolve_symlink_chain(path, symlinks, files, cache, maxd) ==
  IF path \in DOMAIN cache
  THEN [raised |-> FALSE, result |-> cache[path], cache |-> cache]
  ELSE CallOutcome(WhileLoop(path, {}, 0, symlinks, files, maxd), path, cache)

(***************************************************************************)
(* The equivalence matcher and the store-path mapping analyzer.            *)
(***************************************************************************)
\* the default of the batch_size parameter
DefaultBatchSize == 5000

\* an index that is keyed by the paths as they are, not by their normalized
\* form
build_raw_path_index(paths) == [n \in { paths[k] : k \in 1..Len(paths) } |-> << n >>]

\* build_normalized_path_index over the paths in their iteration order
RECURSIVE build_normalized_path_index(_)
build_normalized_path_index(paths) ==
  IF paths = <<>> THEN [n \in {} |-> <<>>]
  ELSE LET index == build_normalized_path_index(SubSeq(paths, 1, Len(paths) - 1))
           path == paths[Len(paths)]
           norm_path == normalize_path(path)
       IN  [n \in DOMAIN index \cup {norm_path} |->
              IF n = norm_path
              THEN (IF n \in DOMAIN index THEN index[n] ELSE <<>>) \o <<path>>
              ELSE index[n]]

\* last position of the run [^/]+ that starts at j
NonSlashEnd(s, j) ==
  LET stop == { k \in j..Len(s) : s[k] = "/" } IN
  IF stop = {} THEN Len(s) ELSE MinOf(stop) - 1

\* nix/(?:\.r[wo]-)?store/[a-z0-9]{32}-[^/]+ matches at i
StorePatternAt(s, i) ==
  LET e == StoreHashEndAt(s, i) IN
  e > 0 /\ e <= Len(s) /\ s[e] # "/"

\* start of the leftmost match of the store pattern, 0 if the search finds
\* none
StoreSearch(s) ==
  LET found == { k \in 1..Len(s) : StorePatternAt(s, k) } IN
  IF found = {} THEN 0 ELSE MinOf(found)

\* group 1 of re.search(r"(nix/(?:\.r[wo]-)?store/[a-z0-9]{32}-[^/]+)", s):
\* the store path, the empty string standing for no match
store_match(s) ==
  LET i == StoreSearch(s) IN
  IF i = 0 THEN <<>>
  ELSE SubSeq(s, i, NonSlashEnd(s, StoreHashEndAt(s, i)))

\* group 1 of re.search(r"nix/(?:\.r[wo]-)?store/[a-z0-9]{32}-([^/]+)", s):
\* the package name, the empty string standing for no match
package_match(s) ==
  LET i == StoreSearch(s) IN
  IF i = 0 THEN <<>>
  ELSE SubSeq(s, StoreHashEndAt(s, i), NonSlashEnd(s, StoreHashEndAt(s, i)))

\* target or ""
OrEmpty(target) == IF Truthy(target) THEN target ELSE StrTarget(<<>>)

\* the results storage of find_equivalent_symlinks
EmptyResults(n1, n2) ==
  [matching_paths |-> <<>>, different_targets |-> <<>>,
   identical_final_content |-> <<>>, different_final_content |-> <<>>,
   broken_in_both |-> <<>>, broken_only_in_state1 |-> <<>>,
   broken_only_in_state2 |-> <<>>,
   stats |->
     [total_symlinks_state1 |-> n1, total_symlinks_state2 |-> n2,
      matching_paths |-> 0, different_targets |-> 0,
      identical_final_content |-> 0, different_final_content |-> 0,
      broken_in_both |-> 0, broken_only_in_state1 |-> 0,
      broken_only_in_state2 |-> 0,
      store_path_mappings |-> [k \in {} |-> <<>>]]]

\* results[bucket].append(path_match); results["stats"][bucket] += 1
AddTo(res, bucket, path_match) ==
  [res EXCEPT ![bucket] = Append(@, path_match),
              !.stats[bucket] = @ + 1]

\* a classification that looks at the hashes before the broken flags
BucketOfHashFirst(broken1, broken2, hash1, hash2) ==
  IF hash1 = hash2 THEN "identical_final_content"
  ELSE IF broken1 /\ broken2 THEN "broken_in_both"
  ELSE IF broken1 THEN "broken_only_in_state1"
  ELSE IF broken2 THEN "broken_only_in_state2"
  ELSE "different_final_content"

\* the if/elif chain that classifies a resolved pair
BucketOf(broken1, broken2, hash1, hash2) ==
  IF broken1 /\ broken2 THEN "broken_in_both"
  ELSE IF broken1 THEN "broken_only_in_state1"
  ELSE IF broken2 THEN "broken_only_in_state2"
  ELSE IF hash1 = hash2 THEN "identical_final_content"
  ELSE "different_final_content"

\* the candidates of the index that are symlinks of state 2
Candidates(index, norm_path, sl2) ==
  SelectSeq(IF norm_path \in DOMAIN index THEN index[norm_path] ELSE <<>>,
            LAMBDA q : q \in DOMAIN sl2)

\* lines 237-307: the record of a resolved pair
PathMatch(path1, path2, target1, target2, r1, r2) ==
  [state1_path |-> path1, state2_path |-> path2,
   state1_target |-> target1, state2_target |-> target2,
   state1_final_path |-> r1.final_path, state2_final_path |-> r2.final_path,
   state1_broken |-> r1.broken, state2_broken |-> r2.broken,
   state1_final_hash |-> r1.hash, state2_final_hash |-> r2.hash,
   state1_status |-> r1.status, state2_status |-> r2.status]

\* lines 243-307: the record goes to matching_paths, to different_targets
\* when the normalized targets differ, and to its bucket
FilePair(res, path_match, differ, bucket) ==
  AddTo(IF differ
        THEN AddTo(AddTo(res, "matching_paths", path_match),
                   "different_targets", path_match)
        ELSE AddTo(res, "matching_paths", path_match),
        bucket, path_match)

\* lines 255-262: the first store path mapped from store_path1 is kept
RecordMapping(mappings, store_path1, store_path2) ==
  IF /\ store_path1 # <<>>
     /\ store_path2 # <<>>
     /\ store_path1 \notin DOMAIN mappings
  THEN [k \in DOMAIN mappings \cup {store_path1} |->
          IF k = store_path1 THEN store_path2 ELSE mappings[k]]
  ELSE mappings

\* the state after the pair has been resolved in both snapshots
Resolved(st, path1, path2, target1, target2, differ, r1, r2) ==
  IF r1.raised \/ r2.raised
  THEN [st EXCEPT !.raised = TRUE]
  ELSE [results |->
          FilePair(st.results,
                   PathMatch(path1, path2, target1, target2,
                             r1.result, r2.result),
                   differ,
                   BucketOf(r1.result.broken, r2.result.broken,
                            r1.result.hash, r2.result.hash)),
        store_path_mappings |->
          RecordMapping(st.store_path_mappings, store_match(path1),
                        store_match(path2)),
        resolve_cache1 |-> r1.cache, resolve_cache2 |-> r2.cache,
        raised |-> FALSE]

\* a pair whose state-2 path is resolved with the cache the state-1 path has
\* just been resolved with
MatchPairSharedCache(path1, path2, target1, target2, st, sl1, fl1, sl2, fl2) ==
  IF OrEmpty(target1).kind # "str" \/ OrEmpty(target2).kind # "str"
  THEN [st EXCEPT !.raised = TRUE]
  ELSE Resolved(st, path1, path2, target1, target2,
                normalize_path(OrEmpty(target1).str)
                  # normalize_path(OrEmpty(target2).str),
                resolve_symlink_chain(path1, sl1, fl1, st.resolve_cache1,
                                      DefaultMaxDepth),
                resolve_symlink_chain(path2, sl2, fl2,
                                      resolve_symlink_chain(path1, sl1, fl1,
                                        st.resolve_cache1, DefaultMaxDepth).cache,
                                      DefaultMaxDepth))

\* lines 233-275 for path1 and the first candidate path2
MatchPair(path1, path2, target1, target2, st, sl1, fl1, sl2, fl2) ==
  IF OrEmpty(target1).kind # "str" \/ OrEmpty(target2).kind # "str"
  THEN [st EXCEPT !.raised = TRUE]
  ELSE Resolved(st, path1, path2, target1, target2,
                normalize_path(OrEmpty(target1).str)
                  # normalize_path(OrEmpty(target2).str),
                resolve_symlink_chain(path1, sl1, fl1, st.resolve_cache1,
                                      DefaultMaxDepth),
                resolve_symlink_chain(path2, sl2, fl2, st.resolve_cache2,
                                      DefaultMaxDepth))

\* lines 233-235: the first candidate is taken, if there is one
FirstMatch(path1, paths2, st, sl1, fl1, sl2, fl2) ==
  IF paths2 = <<>> THEN st
  ELSE MatchPair(path1, paths2[1], sl1[path1].target, sl2[paths2[1]].target,
                 st, sl1, fl1, sl2, fl2)

\* one pass through the body of the loop over a batch, for path1; st holds
\* the results, the mappings and the two caches
ProcessPath1(path1, st, sl1, fl1, sl2, fl2, index) ==
  FirstMatch(path1, Candidates(index, normalize_path(path1), sl2), st,
             sl1, fl1, sl2, fl2)

\* the package names of a set of store-path mappings
PackageMappings(mappings) ==
  LET pairs == { <<package_match(p1), package_match(mappings[p1])>> :
                   p1 \in DOMAIN mappings }
      good == { pr \in pairs : pr[1] # <<>> /\ pr[2] # <<>> }
  IN  [pkg1 \in { pr[1] : pr \in good } |->
         { pr[2] : pr \in { x \in good : x[1] = pkg1 } }]

\* a consistency test that also accepts names with several counterparts
IsConsistentAny(pkg2_set) == Cardinality(pkg2_set) >= 1

\* len(pkg2_set) == 1
IsConsistent(pkg2_set) == Cardinality(pkg2_set) = 1

analyze_store_paths(symlink_results) ==
  LET mappings == symlink_results.stats.store_path_mappings
      package_mappings == PackageMappings(mappings)
      cons == { pkg \in DOMAIN package_mappings : IsConsistent(package_mappings[pkg]) }
      incons == DOMAIN package_mappings \ cons
  IN  [consistent_package_mappings |->
         [pkg \in cons |-> CHOOSE x \in package_mappings[pkg] : TRUE],
       inconsistent_package_mappings |->
         [pkg \in incons |-> package_mappings[pkg]],
       total_store_paths |-> Cardinality(DOMAIN mappings),
       unique_packages_state1 |-> Cardinality(DOMAIN package_mappings),
       consistent_mappings_count |-> Cardinality(cons),
       inconsistent_mappings_count |-> Cardinality(incons)]

(***************************************************************************)
(* Paths the normalizer is applied to: concatenations of pieces.           *)
(***************************************************************************)
Hash1 == [i \in 1..HashLen |-> "a"]
Hash2 == [i \in 1..HashLen |-> "b"]
ShortHash == [i \in 1..(HashLen - 1) |-> "a"]

NixStore == <<"n","i","x","/","s","t","o","r","e","/">>
NixRoStore == <<"n","i","x","/",".","r","o","-","s","t","o","r","e","/">>
NixRwStore == <<"n","i","x","/",".","r","w","-","s","t","o","r","e","/">>
NixRxStore == <<"n","i","x","/",".","r","x","-","s","t","o","r","e","/">>

Pieces ==
  { <<"/">>, <<"x">>, <<"m","y">>, <<"\n">>,
    NixStore \o Hash1 \o <<"-","a">>,
    NixRoStore \o Hash2 \o <<"-","b">>,
    NixRwStore \o Hash1 \o <<"-","a">>,
    NixStore \o ShortHash \o <<"-","a">>,
    NixRxStore \o Hash1 \o <<"-","a">> }

RECURSIVE PathsOf(_)
PathsOf(n) ==
  IF n = 0 THEN { <<>> }
  ELSE LET prev == PathsOf(n - 1) IN
       prev \cup { p \o q : p \in prev, q \in Pieces }

NormPaths == PathsOf(MaxPieces)

(***************************************************************************)
(* Snapshot tables the resolver is run against.                            *)
(***************************************************************************)
PA == <<"a">>
PB == <<"b">>
PDL == <<"d","/","l">>
PF == <<"f">>
PG == <<"g">>

\* marks a path that has no symlink record
Absent == [kind |-> "absent", str |-> <<>>]

TargetsA ==
  { Absent, StrTarget(<<"/","a">>), StrTarget(<<"b">>), StrTarget(<<"/","f">>),
    StrTarget(<<>>), NoneTarget, TruthyNonStr, FalsyNonStr }
TargetsB ==
  { Absent, StrTarget(<<"/","a">>), StrTarget(<<"/","d","/","l">>),
    StrTarget(<<"/","f">>), StrTarget(<<"/","g">>), TruthyNonStr }
TargetsDL ==
  { Absent, StrTarget(<<".",".","/","a">>), StrTarget(<<"b">>),
    StrTarget(<<"/","f">>), NoneTarget }

SymlinkTable(ta, tb, tdl) ==
  LET t == [p \in {PA, PB, PDL} |->
              IF p = PA THEN ta ELSE IF p = PB THEN tb ELSE tdl]
  IN  [p \in { x \in {PA, PB, PDL} : t[x] # Absent } |-> [target |-> t[p]]]

SmallSymlinks ==
  { SymlinkTable(ta, tb, tdl) : ta \in TargetsA, tb \in TargetsB, tdl \in TargetsDL }

\* f is a readable file, g a file whose hash could not be taken
SmallFiles ==
  LET base == [p \in {PF, PG} |-> [hash |-> IF p = PF THEN "X" ELSE NoHash]] IN
  { base }

\* the path c...c of n characters
PC(n) == [k \in 1..n |-> "c"]

\* n symlinks c -> /cc -> /ccc ... whose last target is a readable file
ChainSymlinks(n) ==
  [p \in { PC(k) : k \in 1..n } |-> [target |-> StrTarget(<<"/">> \o p \o <<"c">>)]]
ChainFiles(n) == [p \in { PC(n + 1) } |-> [hash |-> "Y"]]

\* n symlinks c -> /cc -> ... -> /c
CycleSymlinks(n) ==
  [p \in { PC(k) : k \in 1..n } |->
     [target |-> StrTarget(IF Len(p) = n THEN <<"/","c">> ELSE <<"/">> \o p \o <<"c">>)]]

LongLens == (DefaultMaxDepth - 1)..(DefaultMaxDepth + MaxBeyond)

EmptyTable == [p \in {} |-> 0]

\* the paths resolve_symlink_chain is called with
StartPaths(symlinks) ==
  IF PC(1) \in DOMAIN symlinks THEN { PC(1), PC(2) }
  ELSE { PA, PB, PDL, PF, <<"/","a">> }

(***************************************************************************)
(* Snapshot pairs the matcher is run on.                                   *)
(***************************************************************************)
\* two symlinks with the same normalized path, a symlink and two files
\* outside the store, a file without a hash, two builds of one package
PL1 == NixStore \o Hash1 \o <<"-","a","/","l">>
PL2 == NixStore \o Hash2 \o <<"-","a","/","l">>
PT == <<"b","i","n","/","t">>
PU == <<"u">>
PS1 == NixStore \o Hash1 \o <<"-","p","k","g","/","t">>
PS2 == NixStore \o Hash2 \o <<"-","p","k","g","/","t">>

\* marks a path that is a regular file
IsFile == [kind |-> "file", str |-> <<>>]

\* a store directory whose name starts with the text h, and one that starts
\* with the text the normalizer writes for a hash
StoreDir(h, name) == NixStore \o h \o <<"-">> \o name
HashToken == <<"H","A","S","H">>

\* store paths of package A nested in store directories x and y, with a hash
\* or the text HASH in either place
OuterDirs ==
  << StoreDir(HashToken, <<"x">>), StoreDir(HashToken, <<"y">>),
     StoreDir(Hash2, <<"x">>), StoreDir(Hash2, <<"y">>) >>
InnerDirs ==
  << StoreDir(Hash1, <<"A">>), StoreDir(Hash2, <<"A">>),
     StoreDir(HashToken, <<"A">>) >>
NestedPaths ==
  [k \in 1..(Len(OuterDirs) * Len(InnerDirs)) |->
     OuterDirs[((k - 1) \div Len(InnerDirs)) + 1] \o <<"/">>
       \o InnerDirs[((k - 1) % Len(InnerDirs)) + 1]]

AllPaths == << PL1, PL2, PT, PF, PG, PU, PS1, PS2 >> \o NestedPaths

\* the paths of S in the order of AllPaths, and in the opposite order
Forward(S) == SelectSeq(AllPaths, LAMBDA q : q \in S)
RECURSIVE Reverse(_)
Reverse(seq) == IF seq = <<>> THEN <<>> ELSE Append(Reverse(Tail(seq)), Head(seq))

Snapshot(tl1, tl2, tt) ==
  LET t == [p \in {PL1, PL2, PT} |->
              IF p = PL1 THEN tl1 ELSE IF p = PL2 THEN tl2 ELSE tt]
      links == { x \in {PL1, PL2, PT} : t[x] \notin {Absent, IsFile} }
      plain == {PF, PG, PU}
                 \cup (IF tt = IsFile THEN {PT} ELSE {})
                 \cup (IF tt = StrTarget(<<"/">> \o PS1) THEN {PS1} ELSE {})
                 \cup (IF tt = StrTarget(<<"/">> \o PS2) THEN {PS2} ELSE {})
  IN  [symlinks |-> [p \in links |-> [target |-> t[p]]],
       files |-> [p \in plain |->
                    [hash |-> IF p = PG THEN "Y"
                              ELSE IF p = PU THEN NoHash ELSE "X"]]]

Snapshots1 ==
  { Snapshot(tl1, tl2, tt) :
      tl1 \in { Absent, StrTarget(<<"/","f">>), NoneTarget, TruthyNonStr },
      tl2 \in { Absent, StrTarget(<<"/","f">>), StrTarget(<<"/","g">>) },
      tt \in { Absent, StrTarget(<<"/">> \o PS1), StrTarget(<<"/","u">>) } }

Snapshots2 ==
  { Snapshot(tl1, tl2, tt) :
      tl1 \in { Absent, StrTarget(<<"/","f">>), NoneTarget },
      tl2 \in { Absent, StrTarget(<<"/","f">>), StrTarget(<<"/","g">>) },
      tt \in { Absent, StrTarget(<<"/">> \o PS1), StrTarget(<<"/">> \o PS2),
               StrTarget(<<"/","u">>), IsFile } }

BatchSizes == (1..MaxBatch) \cup {DefaultBatchSize}

(***************************************************************************)
(* The values of the parts of the state that a run does not use.            *)
(***************************************************************************)
NormIdle ==
  /\ np_path = <<>>
  /\ np_in = <<>>
  /\ np_out = <<>>
  /\ np_calls = 0

ResolverIdle ==
  /\ rs_symlinks = EmptyTable
  /\ rs_files = EmptyTable
  /\ max_depth = DefaultMaxDepth
  /\ rs_cache = EmptyTable
  /\ rs_path = <<>>
  /\ current_path = <<>>
  /\ visited = {}
  /\ depth = 0
  /\ rs_result = NoResult
  /\ rs_pc = "idle"
  /\ rs_iters = 0
  /\ rs_calls = 0
  /\ rs_hit = FALSE

NoAnalysis ==
  [consistent_package_mappings |-> EmptyTable,
   inconsistent_package_mappings |-> EmptyTable,
   total_store_paths |-> 0, unique_packages_state1 |-> 0,
   consistent_mappings_count |-> 0, inconsistent_mappings_count |-> 0]

MatcherRest ==
  /\ path_index2 = EmptyTable
  /\ results = EmptyResults(0, 0)
  /\ store_path_mappings = EmptyTable
  /\ resolve_cache1 = EmptyTable
  /\ resolve_cache2 = EmptyTable
  /\ start_idx = 0
  /\ batch = <<>>
  /\ batch_pos = 0
  /\ store_analysis = NoAnalysis

MatcherIdle ==
  /\ symlinks1 = EmptyTable
  /\ files1 = EmptyTable
  /\ symlinks2 = EmptyTable
  /\ files2 = EmptyTable
  /\ symlinks1_list = <<>>
  /\ batch_size = DefaultBatchSize
  /\ ms_pc = "idle"
  /\ MatcherRest

(***************************************************************************)
(* The normalizer applied once and then to its own result.                 *)
(***************************************************************************)
NormInit ==
  /\ np_path \in NormPaths
  /\ np_in = np_path
  /\ np_out = <<>>
  /\ np_calls = 0
  /\ ResolverIdle
  /\ MatcherIdle

Normalize ==
  /\ np_calls = 0
  /\ np_out' = normalize_path(np_in)
  /\ np_calls' = 1
  /\ UNCHANGED <<np_path, np_in, res_vars, match_vars>>

NormalizeAgain ==
  /\ np_calls = 1
  /\ np_in' = np_out
  /\ np_out' = normalize_path(np_out)
  /\ np_calls' = 2
  /\ UNCHANGED <<np_path, res_vars, match_vars>>

NormNext == Normalize \/ NormalizeAgain

SpecNorm == NormInit /\ [][NormNext]_vars

(***************************************************************************)
(* Calls of the resolver against one cache, one pass through the loop      *)
(* body at a time.                                                         *)
(***************************************************************************)
ResolveInit ==
  /\ \/ /\ rs_symlinks \in SmallSymlinks
        /\ rs_files \in SmallFiles
        /\ max_depth \in 1..MaxSmallDepth
     \/ \E n \in LongLens :
          /\ rs_symlinks = ChainSymlinks(n)
          /\ rs_files = ChainFiles(n)
          /\ max_depth = DefaultMaxDepth
     \/ \E n \in LongLens :
          /\ rs_symlinks = CycleSymlinks(n)
          /\ rs_files = EmptyTable
          /\ max_depth = DefaultMaxDepth
  /\ rs_cache = EmptyTable
  /\ rs_path = <<>>
  /\ current_path = <<>>
  /\ visited = {}
  /\ depth = 0
  /\ rs_result = NoResult
  /\ rs_pc = "idle"
  /\ rs_iters = 0
  /\ rs_calls = 0
  /\ rs_hit = FALSE
  /\ NormIdle
  /\ MatcherIdle

\* lines 66-67: the path is in the cache
CallHit(path) ==
  /\ rs_pc = "idle"
  /\ rs_calls < MaxCalls
  /\ path \in DOMAIN rs_cache
  /\ rs_path' = path
  /\ rs_result' = rs_cache[path]
  /\ rs_hit' = TRUE
  /\ rs_calls' = rs_calls + 1
  /\ rs_iters' = 0
  /\ UNCHANGED <<table_vars, rs_cache, current_path, visited, depth, rs_pc,
                 norm_vars, match_vars>>

\* lines 66-72: the path is not in the cache, the locals are set up
CallMiss(path) ==
  /\ rs_pc = "idle"
  /\ rs_calls < MaxCalls
  /\ path \notin DOMAIN rs_cache
  /\ rs_path' = path
  /\ visited' = {}
  /\ current_path' = path
  /\ depth' = 0
  /\ rs_result' = NoResult
  /\ rs_hit' = FALSE
  /\ rs_calls' = rs_calls + 1
  /\ rs_iters' = 0
  /\ rs_pc' = "loop"
  /\ UNCHANGED <<table_vars, rs_cache, norm_vars, match_vars>>

\* lines 74-114: one pass through the loop body
LoopIter ==
  /\ rs_pc = "loop"
  /\ LoopGuard(depth, max_depth)
  /\ LET o == LoopBody(current_path, visited, depth, rs_symlinks, rs_files) IN
     /\ current_path' = o.current_path
     /\ visited' = o.visited
     /\ depth' = o.depth
     /\ rs_iters' = rs_iters + 1
     /\ IF o.kind = "return"
        THEN /\ rs_result' = o.result
             /\ rs_cache' = CacheWrite(rs_cache, rs_path, current_path, o.result)
             /\ rs_pc' = "idle"
        ELSE /\ rs_pc' = IF o.kind = "raise" THEN "raised" ELSE "loop"
             /\ UNCHANGED <<rs_result, rs_cache>>
  /\ UNCHANGED <<table_vars, rs_path, rs_calls, rs_hit, norm_vars, match_vars>>

\* lines 116-119: the loop has run out
LoopExit ==
  /\ rs_pc = "loop"
  /\ ~LoopGuard(depth, max_depth)
  /\ rs_result' = MaxDepthResult(current_path)
  /\ rs_cache' = CacheWrite(rs_cache, rs_path, current_path, rs_result')
  /\ rs_pc' = "idle"
  /\ UNCHANGED <<table_vars, rs_path, current_path, visited, depth, rs_iters,
                 rs_calls, rs_hit, norm_vars, match_vars>>

ResolveNext ==
  \/ \E path \in StartPaths(rs_symlinks) : CallHit(path)
  \/ \E path \in StartPaths(rs_symlinks) : CallMiss(path)
  \/ LoopIter
  \/ LoopExit

SpecResolve == ResolveInit /\ [][ResolveNext]_vars

(***************************************************************************)
(* A run of find_equivalent_symlinks followed by analyze_store_paths.      *)
(***************************************************************************)
MatchInit ==
  /\ \E s1 \in Snapshots1, s2 \in Snapshots2 :
       /\ symlinks1 = s1.symlinks
       /\ files1 = s1.files
       /\ symlinks2 = s2.symlinks
       /\ files2 = s2.files
       /\ symlinks1_list = Forward(DOMAIN s1.symlinks)
  /\ batch_size \in BatchSizes
  /\ ms_pc = "start"
  /\ MatcherRest
  /\ NormIdle
  /\ ResolverIdle

\* lines 171-218: the index of state 2, built over a set of paths whose
\* iteration order is not fixed, and the empty results
MatchStart ==
  /\ ms_pc = "start"
  /\ \E order \in { Forward(DOMAIN symlinks2 \cup DOMAIN files2),
                    Reverse(Forward(DOMAIN symlinks2 \cup DOMAIN files2)) } :
       path_index2' = build_normalized_path_index(order)
  /\ results' = EmptyResults(Cardinality(DOMAIN symlinks1),
                             Cardinality(DOMAIN symlinks2))
  /\ store_path_mappings' = EmptyTable
  /\ resolve_cache1' = EmptyTable
  /\ resolve_cache2' = EmptyTable
  /\ start_idx' = 0
  /\ ms_pc' = "batch"
  /\ UNCHANGED <<snap_vars, batch, batch_pos, store_analysis, norm_vars,
                 res_vars>>

\* lines 220-221: the next batch is cut out of the list
BeginBatch ==
  /\ ms_pc = "batch"
  /\ start_idx < Len(symlinks1_list)
  /\ batch' = SubSeq(symlinks1_list, start_idx + 1,
                     IF start_idx + batch_size < Len(symlinks1_list)
                     THEN start_idx + batch_size ELSE Len(symlinks1_list))
  /\ batch_pos' = 1
  /\ ms_pc' = "path"
  /\ UNCHANGED <<snap_vars, path_index2, results, store_path_mappings,
                 resolve_cache1, resolve_cache2, start_idx, store_analysis,
                 norm_vars, res_vars>>

\* lines 223-307: one symlink of the batch
ProcessPath ==
  /\ ms_pc = "path"
  /\ batch_pos <= Len(batch)
  /\ \E st \in { ProcessPath1(batch[batch_pos],
                               [results |-> results,
                                store_path_mappings |-> store_path_mappings,
                                resolve_cache1 |-> resolve_cache1,
                                resolve_cache2 |-> resolve_cache2,
                                raised |-> FALSE],
                               symlinks1, files1, symlinks2, files2,
                               path_index2) } :
        /\ results' = st.results
        /\ store_path_mappings' = st.store_path_mappings
        /\ resolve_cache1' = st.resolve_cache1
        /\ resolve_cache2' = st.resolve_cache2
        /\ ms_pc' = IF st.raised THEN "raised" ELSE "path"
  /\ batch_pos' = batch_pos + 1
  /\ UNCHANGED <<snap_vars, path_index2, start_idx, batch, store_analysis,
                 norm_vars, res_vars>>

\* a range that moves on by one path too many after every batch
EndBatchSkip ==
  /\ ms_pc = "path"
  /\ batch_pos > Len(batch)
  /\ start_idx' = start_idx + batch_size + 1
  /\ ms_pc' = "batch"
  /\ UNCHANGED <<snap_vars, path_index2, results, store_path_mappings,
                 resolve_cache1, resolve_cache2, batch, batch_pos,
                 store_analysis, norm_vars, res_vars>>

\* line 220: the batch is used up, the range moves on by batch_size
EndBatch ==
  /\ ms_pc = "path"
  /\ batch_pos > Len(batch)
  /\ start_idx' = start_idx + batch_size
  /\ ms_pc' = "batch"
  /\ UNCHANGED <<snap_vars, path_index2, results, store_path_mappings,
                 resolve_cache1, resolve_cache2, batch, batch_pos,
                 store_analysis, norm_vars, res_vars>>

\* lines 309-312: the mappings are attached to the stats and returned
MatchFinish ==
  /\ ms_pc = "batch"
  /\ start_idx >= Len(symlinks1_list)
  /\ results' = [results EXCEPT !.stats.store_path_mappings = store_path_mappings]
  /\ ms_pc' = "done"
  /\ UNCHANGED <<snap_vars, path_index2, store_path_mappings, resolve_cache1,
                 resolve_cache2, start_idx, batch, batch_pos, store_analysis,
                 norm_vars, res_vars>>

\* lines 315-353
AnalyzeStorePaths ==
  /\ ms_pc = "done"
  /\ store_analysis' = analyze_store_paths(results)
  /\ ms_pc' = "analyzed"
  /\ UNCHANGED <<snap_vars, path_index2, results, store_path_mappings,
                 resolve_cache1, resolve_cache2, start_idx, batch, batch_pos,
                 norm_vars, res_vars>>

MatchNext ==
  \/ MatchStart
  \/ BeginBatch
  \/ ProcessPath
  \/ EndBatch
  \/ MatchFinish
  \/ AnalyzeStorePaths

SpecMatch == MatchInit /\ [][MatchNext]_vars

(***************************************************************************)
(* The matcher and the analyzer run on snapshots of nested store paths.    *)
(***************************************************************************)
\* the snapshots with up to MaxPairLinks symlinks at nested store paths, all
\* of them pointing at the readable file f
NestedSnapshots ==
  { [symlinks |-> [p \in links |-> [target |-> StrTarget(<<"/","f">>)]],
     files |-> [p \in {PF} |-> [hash |-> "X"]]] :
      links \in { ls \in SUBSET { NestedPaths[k] : k \in DOMAIN NestedPaths } :
                    Cardinality(ls) \in 1..MaxPairLinks } }

NestedInit ==
  /\ \E s1 \in NestedSnapshots, s2 \in NestedSnapshots :
       /\ symlinks1 = s1.symlinks
       /\ files1 = s1.files
       /\ symlinks2 = s2.symlinks
       /\ files2 = s2.files
       /\ symlinks1_list = Forward(DOMAIN s1.symlinks)
  /\ batch_size = DefaultBatchSize
  /\ ms_pc = "start"
  /\ MatcherRest
  /\ NormIdle
  /\ ResolverIdle

SpecNested == NestedInit /\ [][MatchNext]_vars

(***************************************************************************)
(* The resolver following one symlink with a generated target.             *)
(***************************************************************************)
\* symlinks at the top level, in a directory, and in a directory of a
\* directory
HopPaths == { <<"l">>, <<"d","/","l">>, <<"a","/","d","/","l">> }

TargetComps == { <<>>, <<".">>, <<".",".">>, <<"x">> }

\* the targets joined from up to n components; a first component that is
\* empty makes the target absolute
RECURSIVE JoinedTargets(_)
JoinedTargets(n) ==
  IF n = 1 THEN TargetComps
  ELSE JoinedTargets(n - 1)
         \cup { t \o <<"/">> \o c : t \in JoinedTargets(n - 1), c \in TargetComps }

HopTargets == JoinedTargets(MaxTargetComps)

HopInit ==
  /\ \E p \in HopPaths, t \in HopTargets :
       rs_symlinks = [q \in {p} |-> [target |-> StrTarget(t)]]
  /\ rs_files = EmptyTable
  /\ max_depth \in {1, DefaultMaxDepth}
  /\ rs_cache = EmptyTable
  /\ rs_path = <<>>
  /\ current_path = <<>>
  /\ visited = {}
  /\ depth = 0
  /\ rs_result = NoResult
  /\ rs_pc = "idle"
  /\ rs_iters = 0
  /\ rs_calls = 0
  /\ rs_hit = FALSE
  /\ NormIdle
  /\ MatcherIdle

HopNext ==
  \/ \E path \in DOMAIN rs_symlinks : CallHit(path)
  \/ \E path \in DOMAIN rs_symlinks : CallMiss(path)
  \/ LoopIter
  \/ LoopExit

SpecHop == HopInit /\ [][HopNext]_vars

(***************************************************************************)
(* analyze_store_paths applied to tables of store path mappings.           *)
(***************************************************************************)
\* two store paths of package A, one of package B, and a key outside the
\* store
KA1 == NixStore \o Hash1 \o <<"-","A">>
KA2 == NixStore \o Hash2 \o <<"-","A">>
KB == NixRoStore \o Hash1 \o <<"-","B">>
KN == <<"u","s","r">>

\* two store paths of package X, one of package Y, one of package A, and a
\* value outside the store
VX1 == NixStore \o Hash1 \o <<"-","X">>
VX2 == NixStore \o Hash2 \o <<"-","X">>
VY == NixRwStore \o Hash1 \o <<"-","Y">>

MappingKeys == { KA1, KA2, KB, KN }
MappingValues == { VX1, VX2, VY, KA1, KN }

\* the tables that map some of the keys to values
MappingTables ==
  UNION { [ks -> MappingValues] : ks \in SUBSET MappingKeys }

AnalyzeInit ==
  /\ \E m \in MappingTables :
       results = [EmptyResults(0, 0) EXCEPT !.stats.store_path_mappings = m]
  /\ ms_pc = "done"
  /\ symlinks1 = EmptyTable
  /\ files1 = EmptyTable
  /\ symlinks2 = EmptyTable
  /\ files2 = EmptyTable
  /\ symlinks1_list = <<>>
  /\ batch_size = DefaultBatchSize
  /\ path_index2 = EmptyTable
  /\ store_path_mappings = EmptyTable
  /\ resolve_cache1 = EmptyTable
  /\ resolve_cache2 = EmptyTable
  /\ start_idx = 0
  /\ batch = <<>>
  /\ batch_pos = 0
  /\ store_analysis = NoAnalysis
  /\ NormIdle
  /\ ResolverIdle

SpecAnalyze == AnalyzeInit /\ [][AnalyzeStorePaths]_vars

(***************************************************************************)
(* Properties of the normalizer.                                           *)
(***************************************************************************)
StoreRoots == { NixStore, NixRoStore, NixRwStore }

SingleLine(s) == \A k \in 1..Len(s) : s[k] # "\n"

SlashCount(s) == Cardinality({ k \in 1..Len(s) : s[k] = "/" })

\* a whole-segment store root starts at i and is followed by 32 hash
\* characters, a dash and the first character of a name
StoreSegmentAt(s, i) ==
  /\ i = 1 \/ s[i - 1] = "/"
  /\ \E root \in StoreRoots :
       /\ StartsAt(s, i, root)
       /\ i + Len(root) + HashLen + 1 <= Len(s)
       /\ \A k \in (i + Len(root))..(i + Len(root) + HashLen - 1) :
            s[k] \in LowerAlnum
       /\ s[i + Len(root) + HashLen] = "-"
       /\ s[i + Len(root) + HashLen + 1] # "/"

HasStoreSegment(s) == \E i \in 1..Len(s) : StoreSegmentAt(s, i)

\* the text nix/ occurs in s[1..n]
HasNixText(s, n) ==
  \E k \in 1..n : k + 3 <= n /\ SubSeq(s, k, k + 3) = <<"n","i","x","/">>

\* position of the store segment of a path whose text before that segment
\* does not mention nix/ at all, 0 when the path has no such form
StorePathPos(s) ==
  LET cand == { k \in 1..Len(s) : StoreSegmentAt(s, k) }
      first == MinOf(cand)
  IN  IF cand = {} \/ HasNixText(s, first - 1) THEN 0 ELSE first

\* s with the 32 hash characters of the store segment at i replaced by HASH
WithHashToken(s, i) ==
  LET root == CHOOSE r \in StoreRoots : StartsAt(s, i, r)
      h == i + Len(root)
  IN  SubSeq(s, 1, h - 1) \o <<"H","A","S","H">> \o SubSeq(s, h + HashLen, Len(s))

\* C1: normalize_path(normalize_path(p)) = normalize_path(p) for every p
C1_Idempotent == np_calls = 2 => np_out = np_in

C9_OnlyInsideStoreRoot ==
  LET q == lstrip(np_path) IN
  (np_calls = 1 /\ SingleLine(q) /\ ~HasStoreSegment(q)) => np_out = q

(***************************************************************************)
(* Properties of the resolver.                                             *)
(***************************************************************************)
\* the last call has returned a result
Returned == rs_pc = "idle" /\ rs_calls > 0

\* the record at p is a symlink whose target is a non-empty string
ValidHop(p) ==
  /\ p \in DOMAIN rs_symlinks
  /\ rs_symlinks[p].target.kind = "str"
  /\ rs_symlinks[p].target.str # <<>>

\* the paths of the chain that starts at p, up to and including the first
\* path that is not a valid hop
RECURSIVE ChainFrom(_, _)
ChainFrom(p, seen) ==
  IF p \in seen THEN seen
  ELSE IF ~ValidHop(p) THEN seen \cup {p}
  ELSE ChainFrom(NextPath(p, rs_symlinks[p].target.str), seen \cup {p})

Chain(p) == ChainFrom(p, {})

\* the chain never leaves the symlinks: it runs into itself
Cyclic(p) == \A q \in Chain(p) : ValidHop(q)

\* the number of symlinks of the chain that can be followed
ValidHops(p) == Cardinality({ q \in Chain(p) : ValidHop(q) })

\* the path an acyclic chain ends at
ChainEnd(p) == CHOOSE q \in Chain(p) : ~ValidHop(q)

\* C2: resolve_symlink_chain never throws, and a symlink record whose
\* target is not a string resolves to status broken
C2_NeverThrows ==
  /\ rs_pc # "raised"
  /\ (/\ Returned
      /\ current_path \in DOMAIN rs_symlinks
      /\ rs_symlinks[current_path].target.kind \in {"truthy_nonstr", "falsy_nonstr"})
       => rs_result.status = "broken"

\* C3: a start path whose chain is self-referential or mutually referential
\* resolves to status cycle, broken, without a hash
C3_CycleStatus ==
  (Returned /\ Cyclic(rs_path))
    => /\ rs_result.status = "cycle"
       /\ rs_result.broken
       /\ rs_result.hash = NoHash

\* C3 as amended: such a chain resolves to a broken result without a hash,
\* with status cycle when it has fewer than max_depth distinct paths and
\* status max_depth otherwise
C3_CycleWithinDepth ==
  (Returned /\ Cyclic(rs_path))
    => /\ rs_result.broken
       /\ rs_result.hash = NoHash
       /\ rs_result.status =
            IF ValidHops(rs_path) < max_depth THEN "cycle" ELSE "max_depth"

\* a cycle of several symlinks was resolved under the default max_depth and
\* reported as a cycle
C3_Witness ==
  /\ Returned
  /\ Cyclic(rs_path)
  /\ ValidHops(rs_path) > 1
  /\ max_depth = DefaultMaxDepth
  /\ rs_result.status = "cycle"

\* C6: an acyclic chain of more than max_depth valid hops resolves to status
\* max_depth, broken and without a hash, whatever it ends at
C6_DepthBound ==
  (Returned /\ ~Cyclic(rs_path) /\ ValidHops(rs_path) > max_depth)
    => /\ rs_result.status = "max_depth"
       /\ rs_result.broken
       /\ rs_result.hash = NoHash

\* a chain of more than max_depth hops that ends at a readable file was
\* resolved
C6_Witness ==
  /\ Returned
  /\ ~Cyclic(rs_path)
  /\ ValidHops(rs_path) > max_depth
  /\ fix_path(ChainEnd(rs_path)) \in DOMAIN rs_files
  /\ rs_files[fix_path(ChainEnd(rs_path))].hash # NoHash
  /\ rs_result.status = "max_depth"

\* C7: a call makes at most max_depth passes through the loop body; while
\* it is in the loop every pass so far has raised the hop counter, which
\* stays within max_depth, so no call stays in the loop forever
C7_Terminates ==
  /\ rs_iters <= max_depth
  /\ rs_pc = "loop" => (rs_iters = depth /\ depth <= max_depth)

\* a call used up all max_depth passes of the default bound
C7_Witness ==
  /\ Returned
  /\ max_depth = DefaultMaxDepth
  /\ rs_iters = max_depth
  /\ rs_result.status = "max_depth"

\* C10: a call that misses the cache stores its result under its path
\* argument and under no other key, a call that hits returns the stored
\* result and leaves the cache alone, and no entry is ever changed or removed
C10_Memoization ==
  [][ /\ \A k \in DOMAIN rs_cache :
           k \in DOMAIN rs_cache' /\ rs_cache'[k] = rs_cache[k]
      /\ DOMAIN rs_cache' \subseteq DOMAIN rs_cache \cup {rs_path'}
      /\ (rs_pc = "loop" /\ rs_pc' = "idle")
           => /\ rs_path \in DOMAIN rs_cache'
              /\ rs_cache'[rs_path] = rs_result'
      /\ (rs_pc = "idle" /\ rs_calls' = rs_calls + 1 /\ rs_path' \in DOMAIN rs_cache)
           => /\ rs_result' = rs_cache[rs_path']
              /\ rs_cache' = rs_cache
              /\ rs_pc' = "idle"
    ]_vars

\* a second call found the result of the first one, which had ended at a
\* path other than its argument, in the cache
C10_Witness ==
  /\ Returned
  /\ rs_hit
  /\ rs_calls = 2
  /\ rs_result = rs_cache[rs_path]
  /\ rs_result.final_path # rs_path
  /\ rs_result.status \in {"file", "missing", "broken", "cycle", "max_depth"}

(***************************************************************************)
(* Properties of the matcher and the analyzer.                             *)
(***************************************************************************)
\* the two snapshots are the same
IdenticalSnapshots == symlinks1 = symlinks2 /\ files1 = files2

\* the entries of a bucket that were made for the state-1 path p
EntriesFor(bucket, p) ==
  { k \in 1..Len(results[bucket]) : results[bucket][k].state1_path = p }

\* C4: on identical snapshots every symlink is matched and lands in
\* identical_final_content or broken_in_both, and the other three buckets
\* stay empty
C4_IdenticalSnapshots ==
  (ms_pc = "done" /\ IdenticalSnapshots)
    => /\ \A p \in DOMAIN symlinks1 :
            /\ Cardinality(EntriesFor("matching_paths", p)) = 1
            /\ Cardinality(EntriesFor("identical_final_content", p))
                 + Cardinality(EntriesFor("broken_in_both", p)) = 1
       /\ results.different_final_content = <<>>
       /\ results.broken_only_in_state1 = <<>>
       /\ results.broken_only_in_state2 = <<>>

\* the end-to-end scenario at p: a symlink outside the store in both
\* snapshots, whose two targets are store paths that differ only in the
\* hash, classified as identical final content
EndToEndScenario(p) ==
  /\ p \in DOMAIN symlinks1 \cap DOMAIN symlinks2
  /\ ~HasStoreSegment(p)
  /\ symlinks1[p].target.kind = "str"
  /\ symlinks2[p].target.kind = "str"
  /\ HasStoreSegment(lstrip(symlinks1[p].target.str))
  /\ symlinks1[p].target.str # symlinks2[p].target.str
  /\ normalize_path(symlinks1[p].target.str) = normalize_path(symlinks2[p].target.str)
  /\ EntriesFor("identical_final_content", p) # {}

\* C5: in the end-to-end scenario the analysis records the package of the
\* targets as consistently mapped to itself
C5_EndToEndMapping ==
  ms_pc = "analyzed" =>
    \A p \in DOMAIN symlinks1 :
      EndToEndScenario(p) =>
        LET pkg == package_match(symlinks1[p].target.str) IN
        /\ pkg \in DOMAIN store_analysis.consistent_package_mappings
        /\ store_analysis.consistent_package_mappings[pkg] = pkg

\* the five buckets a matched pair is classified into
Buckets ==
  { "broken_in_both", "broken_only_in_state1", "broken_only_in_state2",
    "identical_final_content", "different_final_content" }

\* the bucket the priority order assigns to a record of a resolved pair
PriorityBucket(e) ==
  IF e.state1_broken /\ e.state2_broken THEN "broken_in_both"
  ELSE IF e.state1_broken THEN "broken_only_in_state1"
  ELSE IF e.state2_broken THEN "broken_only_in_state2"
  ELSE IF e.state1_final_hash = e.state2_final_hash
       THEN "identical_final_content"
  ELSE "different_final_content"

\* the number of entries of a bucket that equal e
CountIn(bucket, e) ==
  Cardinality({ k \in 1..Len(results[bucket]) : results[bucket][k] = e })

\* the run is inside or behind the pass over the state-1 symlinks
InPass == ms_pc \in {"batch", "path", "done", "analyzed"}

\* C11: every matched pair is in exactly one of the five buckets, the one the
\* priority order gives for its two resolution results, whether or not it is
\* tagged different_targets, and stats.matching_paths is the sum of the five
\* bucket counts
C11_OneBucketByPriority ==
  InPass =>
    /\ \A k \in 1..Len(results.matching_paths) :
         \A b \in Buckets :
           CountIn(b, results.matching_paths[k])
             = IF b = PriorityBucket(results.matching_paths[k]) THEN 1 ELSE 0
    /\ \A b \in Buckets :
         /\ results.stats[b] = Len(results[b])
         /\ \A k \in 1..Len(results[b]) :
              CountIn("matching_paths", results[b][k]) = 1
    /\ results.stats.matching_paths = Len(results.matching_paths)
    /\ results.stats.matching_paths
         = results.stats.broken_in_both + results.stats.broken_only_in_state1
           + results.stats.broken_only_in_state2
           + results.stats.identical_final_content
           + results.stats.different_final_content

\* a finished pass with a pair tagged different_targets that was filed by its
\* final hashes, next to an untagged pair and a pair that is broken in both
C11_Witness ==
  /\ ms_pc = "done"
  /\ \E k \in 1..Len(results.different_targets) :
       CountIn("different_final_content", results.different_targets[k]) = 1
  /\ \E k \in 1..Len(results.identical_final_content) :
       CountIn("different_targets", results.identical_final_content[k]) = 0
  /\ results.broken_in_both # <<>>

\* the state of the pass before its first path
PassStart ==
  [results |-> EmptyResults(Cardinality(DOMAIN symlinks1),
                            Cardinality(DOMAIN symlinks2)),
   store_path_mappings |-> EmptyTable,
   resolve_cache1 |-> EmptyTable,
   resolve_cache2 |-> EmptyTable,
   raised |-> FALSE]

\* the loop body applied to the paths of list one after the other, with no
\* batches in between, until one of them raises
RECURSIVE WholePass(_, _)
WholePass(list, st) ==
  IF list = <<>> \/ st.raised THEN st
  ELSE WholePass(Tail(list),
                 ProcessPath1(Head(list), st, symlinks1, files1, symlinks2,
                              files2, path_index2))

\* what find_equivalent_symlinks returns after an unbatched pass
Returned1(st) ==
  [st.results EXCEPT !.stats.store_path_mappings = st.store_path_mappings]

\* C12: whatever the batch size, a run returns the buckets, counts and store
\* path mappings of the unbatched pass over the same snapshots, and it raises
\* only if that pass does; so any two batch sizes give the same output
C12_BatchingInvisible ==
  /\ ms_pc = "done" =>
       /\ ~WholePass(symlinks1_list, PassStart).raised
       /\ results = Returned1(WholePass(symlinks1_list, PassStart))
  /\ ms_pc = "raised" => WholePass(symlinks1_list, PassStart).raised

\* a run that went through three batches of one path each, matched them all
\* and recorded a store path mapping
C12_Witness ==
  /\ ms_pc = "done"
  /\ batch_size = 1
  /\ start_idx = 3
  /\ Len(results.matching_paths) = 3
  /\ DOMAIN results.stats.store_path_mappings # {}

\* the pairs of package names observed in the mappings handed to the
\* analysis
Observations ==
  { pr \in { <<package_match(k), package_match(results.stats.store_path_mappings[k])>> :
               k \in DOMAIN results.stats.store_path_mappings } :
      pr[1] # <<>> /\ pr[2] # <<>> }

\* the target names observed for a source name
TargetsOf(pkg) == { pr[2] : pr \in { x \in Observations : x[1] = pkg } }

SourceNames == { pr[1] : pr \in Observations }

\* C13: a source package name is reported consistent, with its one target
\* name, iff exactly one target name was observed for it, and otherwise
\* inconsistent with all the names observed; each source name is in exactly
\* one table and the two counts add up to unique_packages_state1
C13_Consistency ==
  ms_pc = "analyzed" =>
    /\ DOMAIN store_analysis.consistent_package_mappings
         = { pkg \in SourceNames : Cardinality(TargetsOf(pkg)) = 1 }
    /\ DOMAIN store_analysis.inconsistent_package_mappings
         = { pkg \in SourceNames : Cardinality(TargetsOf(pkg)) # 1 }
    /\ \A pkg \in DOMAIN store_analysis.consistent_package_mappings :
         TargetsOf(pkg) = { store_analysis.consistent_package_mappings[pkg] }
    /\ \A pkg \in DOMAIN store_analysis.inconsistent_package_mappings :
         store_analysis.inconsistent_package_mappings[pkg] = TargetsOf(pkg)
    /\ store_analysis.unique_packages_state1 = Cardinality(SourceNames)
    /\ store_analysis.consistent_mappings_count
         = Cardinality(DOMAIN store_analysis.consistent_package_mappings)
    /\ store_analysis.inconsistent_mappings_count
         = Cardinality(DOMAIN store_analysis.inconsistent_package_mappings)
    /\ store_analysis.consistent_mappings_count
         + store_analysis.inconsistent_mappings_count
         = store_analysis.unique_packages_state1

\* an analysis of mappings in which package A was seen with X and with Y and
\* package B with one name only
C13_Witness ==
  /\ ms_pc = "analyzed"
  /\ <<"A">> \in DOMAIN store_analysis.inconsistent_package_mappings
  /\ store_analysis.inconsistent_package_mappings[<<"A">>] = { <<"X">>, <<"Y">> }
  /\ <<"B">> \in DOMAIN store_analysis.consistent_package_mappings
  /\ store_analysis.total_store_paths = 4

\* the chain of the state-1 (state-2) side of a record has ended at a file
\* record without a content hash
HashlessEnd1(ent) ==
  /\ ent.state1_final_path \notin DOMAIN symlinks1
  /\ fix_path(ent.state1_final_path) \in DOMAIN files1
  /\ files1[fix_path(ent.state1_final_path)].hash = NoHash
HashlessEnd2(ent) ==
  /\ ent.state2_final_path \notin DOMAIN symlinks2
  /\ fix_path(ent.state2_final_path) \in DOMAIN files2
  /\ files2[fix_path(ent.state2_final_path)].hash = NoHash

\* C14: a chain that ends at a file record without a content hash resolves
\* to status missing, broken, hash None; a pair whose two chains both end at
\* such files is filed under broken_in_both and not under
\* identical_final_content
C14_HashlessIsMissing ==
  InPass =>
    \A k \in 1..Len(results.matching_paths) :
      /\ HashlessEnd1(results.matching_paths[k])
           => /\ results.matching_paths[k].state1_status = "missing"
              /\ results.matching_paths[k].state1_broken
              /\ results.matching_paths[k].state1_final_hash = NoHash
      /\ HashlessEnd2(results.matching_paths[k])
           => /\ results.matching_paths[k].state2_status = "missing"
              /\ results.matching_paths[k].state2_broken
              /\ results.matching_paths[k].state2_final_hash = NoHash
      /\ (/\ HashlessEnd1(results.matching_paths[k])
          /\ HashlessEnd2(results.matching_paths[k]))
           => /\ CountIn("broken_in_both", results.matching_paths[k]) = 1
              /\ CountIn("identical_final_content", results.matching_paths[k]) = 0

\* a finished pass with a pair of symlinks that both lead to a file without
\* a content hash
C14_Witness ==
  /\ ms_pc = "done"
  /\ \E k \in 1..Len(results.broken_in_both) :
       /\ HashlessEnd1(results.broken_in_both[k])
       /\ HashlessEnd2(results.broken_in_both[k])
       /\ results.broken_in_both[k].state1_final_path # results.broken_in_both[k].state1_path

\* the segments of s between its separators, from position i on
RECURSIVE SegmentsFrom(_, _)
SegmentsFrom(s, i) ==
  IF \A k \in i..Len(s) : s[k] # "/"
  THEN << SubSeq(s, i, Len(s)) >>
  ELSE << SubSeq(s, i, MinOf({ k \in i..Len(s) : s[k] = "/" }) - 1) >>
         \o SegmentsFrom(s, MinOf({ k \in i..Len(s) : s[k] = "/" }) + 1)

\* the segments stack, with the segments todo walked from it: empty and .
\* segments stay where they are, a .. segment goes one segment up when there
\* is one to leave
RECURSIVE Walk(_, _)
Walk(stack, todo) ==
  IF todo = <<>> THEN stack
  ELSE IF Head(todo) \in { <<>>, <<".">> } THEN Walk(stack, Tail(todo))
  ELSE IF /\ Head(todo) = <<".",".">>
          /\ stack # <<>>
          /\ stack[Len(stack)] # <<".",".">>
       THEN Walk(SubSeq(stack, 1, Len(stack) - 1), Tail(todo))
  ELSE Walk(Append(stack, Head(todo)), Tail(todo))

\* segments written as a path, . for none
RECURSIVE Written(_)
Written(segs) ==
  IF segs = <<>> THEN <<".">>
  ELSE IF Len(segs) = 1 THEN segs[1]
  ELSE segs[1] \o <<"/">> \o Written(Tail(segs))

\* the segments of the directory a path lies in
DirSegments(p) ==
  SubSeq(SegmentsFrom(p, 1), 1, Len(SegmentsFrom(p, 1)) - 1)

\* where a symlink at p with the non-empty target t leads, read off the two
\* texts alone
LexicalNext(p, t) ==
  IF t[1] # "/"
  THEN Written(Walk(DirSegments(p), SegmentsFrom(t, 1)))
  ELSE IF \A k \in 1..Len(t) : t[k] = "/" THEN <<>>
  ELSE SubSeq(t, MinOf({ k \in 1..Len(t) : t[k] # "/" }), Len(t))

\* C15: a pass that follows a symlink continues at the lexical resolution of
\* the target against the directory of the symlink for a relative target, and
\* at the target without its leading separators for an absolute one; dir/link
\* with ../x leads to x and a/dir/link with ../x to a/x
C15_LexicalResolution ==
  /\ NextPath(<<"d","/","l">>, <<".",".","/","x">>) = <<"x">>
  /\ NextPath(<<"a","/","d","/","l">>, <<".",".","/","x">>) = <<"a","/","x">>
  /\ (rs_pc = "loop" /\ depth = 1)
       => current_path = LexicalNext(rs_path, rs_symlinks[rs_path].target.str)

\* the symlink a/d/l with target ../x has been followed to a/x
C15_Witness ==
  /\ rs_pc = "loop"
  /\ depth = 1
  /\ rs_path = <<"a","/","d","/","l">>
  /\ rs_symlinks[rs_path].target.str = <<".",".","/","x">>
  /\ current_path = <<"a","/","x">>

\* the symlinks of snapshot 2 with the normalized path of p
Counterparts(p) ==
  { q \in DOMAIN symlinks2 : normalize_path(q) = normalize_path(p) }

\* the lists of the results a record can be in
AllLists == Buckets \cup { "matching_paths", "different_targets" }

\* C16: after the pass a snapshot-1 symlink has a record iff snapshot 2 has a
\* symlink with the same normalized path; it then has exactly one record in
\* matching_paths, paired with such a symlink; a symlink without a
\* counterpart is in no list and does not make the pass raise; so
\* stats.matching_paths <= total_symlinks_state1
C16_MatchedIffCounterpart ==
  /\ ms_pc \in {"done", "analyzed"} =>
       \A p \in DOMAIN symlinks1 :
         IF Counterparts(p) = {}
         THEN \A b \in AllLists : EntriesFor(b, p) = {}
         ELSE /\ Cardinality(EntriesFor("matching_paths", p)) = 1
              /\ \A k \in EntriesFor("matching_paths", p) :
                   results.matching_paths[k].state2_path \in Counterparts(p)
  /\ InPass =>
       /\ \A k \in 1..Len(results.matching_paths) :
            results.matching_paths[k].state1_path \in DOMAIN symlinks1
       /\ results.stats.total_symlinks_state1 = Cardinality(DOMAIN symlinks1)
       /\ results.stats.matching_paths <= results.stats.total_symlinks_state1
  /\ ms_pc = "raised" => Counterparts(batch[batch_pos - 1]) # {}

\* a finished pass over a snapshot with a symlink that has two counterparts
\* and a symlink whose only counterpart by path is a regular file
C16_Witness ==
  /\ ms_pc = "done"
  /\ \E p \in DOMAIN symlinks1 :
       /\ Cardinality(Counterparts(p)) = 2
       /\ Cardinality(EntriesFor("matching_paths", p)) = 1
  /\ \E p \in DOMAIN symlinks1 :
       /\ Counterparts(p) = {}
       /\ p \in DOMAIN files2
  /\ results.stats.matching_paths < results.stats.total_symlinks_state1

\* what a call of resolve_symlink_chain without a cache returns for a path
\* of snapshot 1 (snapshot 2)
Uncached1(p) ==
  resolve_symlink_chain(p, symlinks1, files1, EmptyTable, DefaultMaxDepth).result
Uncached2(p) ==
  resolve_symlink_chain(p, symlinks2, files2, EmptyTable, DefaultMaxDepth).result

\* the resolution results a record carries for its two sides
Side1(ent) ==
  ResultTuple(ent.state1_final_path, ent.state1_broken, ent.state1_final_hash,
              ent.state1_status)
Side2(ent) ==
  ResultTuple(ent.state2_final_path, ent.state2_broken, ent.state2_final_hash,
              ent.state2_status)

\* C17: cache 1 holds exactly the matched snapshot-1 paths and cache 2 the
\* snapshot-2 paths they were paired with, and every result in a cache or in
\* a record is the one an uncached call on that path against the tables of
\* its own snapshot returns
C17_IndependentCaches ==
  InPass =>
    /\ DOMAIN resolve_cache1
         = { results.matching_paths[k].state1_path :
               k \in 1..Len(results.matching_paths) }
    /\ DOMAIN resolve_cache2
         = { results.matching_paths[k].state2_path :
               k \in 1..Len(results.matching_paths) }
    /\ \A p \in DOMAIN resolve_cache1 : resolve_cache1[p] = Uncached1(p)
    /\ \A p \in DOMAIN resolve_cache2 : resolve_cache2[p] = Uncached2(p)
    /\ \A k \in 1..Len(results.matching_paths) :
         /\ Side1(results.matching_paths[k])
              = Uncached1(results.matching_paths[k].state1_path)
         /\ Side2(results.matching_paths[k])
              = Uncached2(results.matching_paths[k].state2_path)

\* a finished pass in which one path resolves differently in the two
\* snapshots and a state-2 path was resolved for two pairs
C17_Witness ==
  /\ ms_pc = "done"
  /\ \E k \in 1..Len(results.matching_paths) :
       /\ results.matching_paths[k].state1_path = results.matching_paths[k].state2_path
       /\ Side1(results.matching_paths[k]) # Side2(results.matching_paths[k])
  /\ \E j, k \in 1..Len(results.matching_paths) :
       /\ j # k
       /\ results.matching_paths[j].state2_path = results.matching_paths[k].state2_path

\* the chain from p ends, after following its symlinks, at a regular file
\* with a content hash
EndsAtFile(p) ==
  /\ ~Cyclic(p)
  /\ ChainEnd(p) \notin DOMAIN rs_symlinks
  /\ fix_path(ChainEnd(p)) \in DOMAIN rs_files
  /\ rs_files[fix_path(ChainEnd(p))].hash # NoHash

\* C18: a chain of at most max_depth hops that ends at a regular file with a
\* content hash resolves to status file with that hash, and status max_depth
\* is returned only for chains of more than max_depth hops
C18_WithinDepthIsFile ==
  Returned =>
    /\ (EndsAtFile(rs_path) /\ ValidHops(rs_path) <= max_depth)
         => /\ rs_result.status = "file"
            /\ rs_result.hash = rs_files[fix_path(ChainEnd(rs_path))].hash
    /\ rs_result.status = "max_depth" => ValidHops(rs_path) > max_depth

\* the five terminal statuses
Statuses == { "file", "broken", "missing", "cycle", "max_depth" }

\* a result tuple is well formed with respect to the file table
WellFormed(res) ==
  /\ res.status \in Statuses
  /\ (res.status = "file") = (~res.broken)
  /\ (~res.broken) = (res.hash # NoHash)
  /\ res.status = "file"
       => /\ fix_path(res.final_path) \in DOMAIN rs_files
          /\ res.hash = rs_files[fix_path(res.final_path)].hash

\* C19: every result a call returns, computed or taken from the cache, has
\* one of the five statuses, is a file iff it is not broken iff it has a
\* hash, and a file result carries the hash of the file record at its final
\* path
C19_ResultShape ==
  /\ Returned => WellFormed(rs_result)
  /\ \A p \in DOMAIN rs_cache : WellFormed(rs_cache[p])

\* a call that followed symlinks to a readable file, and returned its hash
C19_Witness ==
  /\ Returned
  /\ rs_result.status = "file"
  /\ rs_result.final_path # rs_path
  /\ rs_result.hash = "X"
  /\ \E p \in DOMAIN rs_cache : rs_cache[p].status = "max_depth"

\* C20: every recorded store path mapping pairs two store paths of the same
\* package name, so the analysis reports every source package as consistent
\* and mapped to itself, and no package as inconsistent
C20_SamePackage ==
  /\ InPass =>
       \A k \in DOMAIN store_path_mappings :
         package_match(k) = package_match(store_path_mappings[k])
  /\ ms_pc = "analyzed" =>
       /\ \A pkg \in DOMAIN store_analysis.consistent_package_mappings :
            store_analysis.consistent_package_mappings[pkg] = pkg
       /\ store_analysis.inconsistent_mappings_count = 0
       /\ store_analysis.consistent_mappings_count
            = store_analysis.unique_packages_state1

====
